---- MODULE Spec2Model ----
(***************************************************************************)
(* A model of the chat-log frequency analyzer in src/main.py               *)
(* (class ChatFrequencyAnalyzer and main).                                 *)
(*                                                                         *)
(* Text is a sequence of characters, each character a one-element string.  *)
(* The two CJK punctuation marks the analyzer counts are written by their  *)
(* code points: "U3002" is the ideographic full stop and "UFF1F" the       *)
(* full-width question mark; the other CJK characters of the source are    *)
(* written the same way.  A dict is a sequence of <<key, value>> pairs in  *)
(* insertion order, with no key twice.                                     *)
(***************************************************************************)
EXTENDS Integers, Sequences, FiniteSets, TLC

VARIABLES
    raw_text,         \* preprocess_text: the argument
    processed_once,   \* preprocess_text(raw_text)
    processed_twice,  \* preprocess_text(preprocess_text(raw_text))
    norm_pc,          \* how many times the normalizer has been applied
    config_file,      \* the configuration file on disk when the run starts
    input_file,       \* the chat log on disk
    config,           \* self.config: option name -> value, [settings] section
    min_frequency,    \* self.min_frequency
    enable_punctuation_stats,  \* self.enable_punctuation_stats
    stopwords,        \* self.stopwords
    line_num,         \* analyze_chat_file: lines of the file processed so far
    word_freq,        \* word_freq: the Counter, then what main receives
    special_counts,   \* special_counts: the tally, then what main receives
    sorted_freq,      \* sorted_freq: the list filter_and_sort returns
    font_found,       \* generate_wordcloud: os.path.exists(font_path)
    wordcloud_file,   \* generate_wordcloud: the value returned
    files_written,    \* the files the run has created
    reports,          \* save_results: what the three reports hold
    error,            \* the exception that left the process, if any
    pc                \* where the run is

norm_vars == <<raw_text, processed_once, processed_twice, norm_pc>>

main_vars ==
    <<config_file, input_file, config, min_frequency, enable_punctuation_stats,
      stopwords, line_num, word_freq, special_counts, sorted_freq, font_found,
      wordcloud_file, files_written, reports, error, pc>>

vars == <<norm_vars, main_vars>>

(***************************************************************************)
(* Characters and character classes of the regular expressions.            *)
(***************************************************************************)
Period == "U3002"
QMark == "UFF1F"

\* \s of the re module and the characters str.strip() removes
Whitespace == {" ", "\t", "\n"}

\* \w of the re module, restricted to the letters the model uses
WordChars == {"a", "b", "f", "h", "p", "s", "t"}

\* the punctuation the character class of line 154 keeps
KeptPunctuation == {".", ",", "!", "?", "UFF0C", Period, "UFF01", QMark}

IsSpace(c) == c \in Whitespace

IsAllowedMutantUrlChars(c) ==
    c \in WordChars \cup Whitespace \cup KeptPunctuation \cup {":", "/"}

\* [\w一-鿿\s\.\,\!\?...] : the characters line 154 does not remove
IsAllowed(c) == c \in WordChars \cup Whitespace \cup KeptPunctuation

(***************************************************************************)
(* Helpers on sequences of characters.                                     *)
(***************************************************************************)
StartsWithAt(text, i, pat) ==
    /\ i + Len(pat) - 1 <= Len(text)
    /\ \A k \in 1..Len(pat) : text[i + k - 1] = pat[k]

\* the last index of the run of non-whitespace characters that holds index i
RECURSIVE RunEnd(_, _)
RunEnd(text, i) ==
    IF i < Len(text) /\ ~IsSpace(text[i + 1]) THEN RunEnd(text, i + 1) ELSE i

RECURSIVE Concat(_)
Concat(seqs) == IF seqs = <<>> THEN <<>> ELSE Head(seqs) \o Concat(Tail(seqs))

RECURSIVE Reverse(_)
Reverse(s) == IF s = <<>> THEN <<>> ELSE Reverse(Tail(s)) \o <<Head(s)>>

(***************************************************************************)
(* preprocess_text, lines 139-157.                                         *)
(***************************************************************************)
\* where a match of https?://\S+ that starts at i ends, 0 when there is none
UrlMatchEnd(text, i) ==
    IF ~StartsWithAt(text, i, <<"h", "t", "t", "p">>) THEN 0
    ELSE LET body == IF StartsWithAt(text, i + 4, <<"s", ":", "/", "/">>) THEN i + 8
                     ELSE IF StartsWithAt(text, i + 4, <<":", "/", "/">>) THEN i + 7
                     ELSE 0
         IN IF body = 0 \/ body > Len(text) THEN 0
            ELSE IF IsSpace(text[body]) THEN 0
            ELSE RunEnd(text, body)

\* where a match of \S+@\S+ that starts at i ends, 0 when there is none
EmailMatchEnd(text, i) ==
    IF IsSpace(text[i]) THEN 0
    ELSE LET e == RunEnd(text, i)
         IN IF \E j \in (i + 1)..(e - 1) : text[j] = "@" THEN e ELSE 0

\* re.sub(r'https?://\S+', '', text) from index i on
RECURSIVE SubUrl(_, _)
SubUrl(text, i) ==
    IF i > Len(text) THEN <<>>
    ELSE LET e == UrlMatchEnd(text, i)
         IN IF e > 0 THEN SubUrl(text, e + 1)
            ELSE <<text[i]>> \o SubUrl(text, i + 1)

\* re.sub(r'\S+@\S+', '', text) from index i on
RECURSIVE SubEmail(_, _)
SubEmail(text, i) ==
    IF i > Len(text) THEN <<>>
    ELSE LET e == EmailMatchEnd(text, i)
         IN IF e > 0 THEN SubEmail(text, e + 1)
            ELSE <<text[i]>> \o SubEmail(text, i + 1)

RemoveDisallowedMutantKeepsUrlChars(text) == SelectSeq(text, IsAllowedMutantUrlChars)

\* re.sub(r'[^\w一-鿿\s\.\,\!\?...]', '', text)
RemoveDisallowed(text) == SelectSeq(text, IsAllowed)

\* re.sub(r'\s+', ' ', text) from index i on
RECURSIVE CollapseWhitespace(_, _)
CollapseWhitespace(text, i) ==
    IF i > Len(text) THEN <<>>
    ELSE IF IsSpace(text[i])
         THEN IF i < Len(text) /\ IsSpace(text[i + 1])
              THEN CollapseWhitespace(text, i + 1)
              ELSE <<" ">> \o CollapseWhitespace(text, i + 1)
         ELSE <<text[i]>> \o CollapseWhitespace(text, i + 1)

RECURSIVE LStrip(_)
LStrip(text) ==
    IF text # <<>> /\ IsSpace(Head(text)) THEN LStrip(Tail(text)) ELSE text

\* str.strip()
Strip(text) == Reverse(LStrip(Reverse(LStrip(text))))

preprocess_text(text) ==
    LET no_url == SubUrl(text, 1)
        no_email == SubEmail(no_url, 1)
        kept == RemoveDisallowed(no_email)
        collapsed == CollapseWhitespace(kept, 1)
    IN Strip(collapsed)

(***************************************************************************)
(* extract_words, lines 159-175.  jieba.lcut cuts the text into pieces     *)
(* that together are the text: a run of Latin letters is one piece, every  *)
(* other character of the model's alphabet a piece of its own.             *)
(***************************************************************************)
RECURSIVE WordRunEnd(_, _)
WordRunEnd(text, i) ==
    IF i < Len(text) /\ text[i + 1] \in WordChars THEN WordRunEnd(text, i + 1) ELSE i

RECURSIVE lcut(_, _)
lcut(text, i) ==
    IF i > Len(text) THEN <<>>
    ELSE IF text[i] \in WordChars
         THEN LET e == WordRunEnd(text, i)
              IN <<SubSeq(text, i, e)>> \o lcut(text, e + 1)
         ELSE <<SubSeq(text, i, i)>> \o lcut(text, i + 1)

RECURSIVE StripAndDropEmpty(_)
StripAndDropEmpty(words) ==
    IF words = <<>> THEN <<>>
    ELSE IF Strip(Head(words)) # <<>>
         THEN <<Strip(Head(words))>> \o StripAndDropEmpty(Tail(words))
         ELSE StripAndDropEmpty(Tail(words))

extract_words(text) == StripAndDropEmpty(lcut(text, 1))

(***************************************************************************)
(* dict and collections.Counter.                                           *)
(***************************************************************************)
DictHas(d, k) == \E i \in 1..Len(d) : d[i][1] = k

DictGet(d, k) == d[CHOOSE i \in 1..Len(d) : d[i][1] = k][2]

\* d[k] = v
DictSet(d, k, v) ==
    IF DictHas(d, k)
    THEN [i \in 1..Len(d) |-> IF d[i][1] = k THEN <<k, v>> ELSE d[i]]
    ELSE Append(d, <<k, v>>)

\* counter[k] += 1
CounterAdd(d, k) == DictSet(d, k, (IF DictHas(d, k) THEN DictGet(d, k) ELSE 0) + 1)

RECURSIVE CountWords(_, _)
CountWords(d, words) ==
    IF words = <<>> THEN d ELSE CountWords(CounterAdd(d, Head(words)), Tail(words))

(***************************************************************************)
(* The punctuation-line detector of analyze_chat_file, lines 190-229.      *)
(***************************************************************************)
juhao == <<"U53E5", "U53F7">>
wenhao == <<"U95EE", "U53F7">>

\* special_punctuations
special_punctuations == << <<juhao, Period>>, <<wenhao, QMark>> >>

\* {name: 0 for name in special_punctuations}
ZeroCounts == [i \in 1..Len(special_punctuations) |-> <<special_punctuations[i][1], 0>>]

NoCategory == <<>>

AllChars(text, c) == \A i \in 1..Len(text) : text[i] = c

PunctuationCategoryMutantSingleOnly(stripped_line) ==
    IF ~enable_punctuation_stats THEN NoCategory
    ELSE IF stripped_line = <<Period>> THEN juhao
    ELSE IF stripped_line = <<QMark>> THEN wenhao
    ELSE NoCategory

\* the category whose tally the line adds to, NoCategory when the line goes on
\* to preprocess_text
PunctuationCategory(stripped_line) ==
    IF ~enable_punctuation_stats THEN NoCategory
    ELSE IF stripped_line = <<Period>> THEN juhao
    ELSE IF stripped_line = <<QMark>> THEN wenhao
    ELSE IF AllChars(stripped_line, Period) /\ Len(stripped_line) > 0 THEN juhao
    ELSE IF AllChars(stripped_line, QMark) /\ Len(stripped_line) > 0 THEN wenhao
    ELSE NoCategory

(***************************************************************************)
(* filter_and_sort, lines 255-283.                                         *)
(***************************************************************************)
PseudoPrefix == <<"[", "U6574", "U884C", "U90FD", "U662F">>

\* f"[...{name}]"
display_name(name) == PseudoPrefix \o name \o <<"]">>

\* word.startswith('[...')
IsPseudoLabel(word) == StartsWithAt(word, 1, PseudoPrefix)

KeepWordMutantNoStopwords(word, freq) == freq >= min_frequency

KeepWordMutantStrict(word, freq) == (word \notin stopwords) /\ (freq > min_frequency)

\* the condition of the dict comprehension, line 269
KeepWord(word, freq) == (word \notin stopwords) /\ (freq >= min_frequency)

KeepSpecialMutantAlways(count) == TRUE

\* the condition of line 275
KeepSpecial(count) == count >= min_frequency

RECURSIVE FilterWords(_)
FilterWords(items) ==
    IF items = <<>> THEN <<>>
    ELSE IF KeepWord(Head(items)[1], Head(items)[2])
         THEN <<Head(items)>> \o FilterWords(Tail(items))
         ELSE FilterWords(Tail(items))

RECURSIVE AddSpecial(_, _)
AddSpecial(filtered_freq, items) ==
    IF items = <<>> THEN filtered_freq
    ELSE IF KeepSpecial(Head(items)[2])
         THEN AddSpecial(DictSet(filtered_freq, display_name(Head(items)[1]), Head(items)[2]),
                         Tail(items))
         ELSE AddSpecial(filtered_freq, Tail(items))

\* x goes after every element of the ascending list whose key is <= its own
RECURSIVE InsertAscending(_, _)
InsertAscending(list, x) ==
    IF list = <<>> THEN <<x>>
    ELSE IF Head(list)[2] <= x[2]
         THEN <<Head(list)>> \o InsertAscending(Tail(list), x)
         ELSE <<x>> \o list

RECURSIVE StableSortAscending(_)
StableSortAscending(list) ==
    IF list = <<>> THEN <<>>
    ELSE InsertAscending(StableSortAscending(SubSeq(list, 1, Len(list) - 1)),
                         list[Len(list)])

SortedDescendingMutantTiesReversed(items) == Reverse(StableSortAscending(items))

\* sorted(items, key=lambda x: x[1], reverse=True): the list is reversed, sorted
\* stably in ascending order and reversed again
SortedDescending(items) == Reverse(StableSortAscending(Reverse(items)))

filter_and_sort(wf, sc) ==
    LET filtered_freq == FilterWords(wf)
        with_special == IF enable_punctuation_stats
                        THEN AddSpecial(filtered_freq, sc)
                        ELSE filtered_freq
    IN SortedDescending(with_special)

(***************************************************************************)
(* load_config, lines 25-71, and __init__, lines 13-23.                    *)
(***************************************************************************)
Options ==
    { "min_frequency", "enable_punctuation_stats", "wordcloud_max_words",
      "wordcloud_width", "wordcloud_height", "wordcloud_background_color",
      "font_path", "show_wordcloud", "save_wordcloud" }

DefaultMinFrequency == 20

\* defaults['settings']
defaults ==
    [ min_frequency |-> DefaultMinFrequency,
      enable_punctuation_stats |-> TRUE,
      wordcloud_max_words |-> 200,
      wordcloud_width |-> 1200,
      wordcloud_height |-> 800,
      wordcloud_background_color |-> "white",
      font_path |-> "C:/Windows/Fonts/simhei.ttf",
      show_wordcloud |-> TRUE,
      save_wordcloud |-> TRUE ]

Restrict(f, S) == [o \in S |-> f[o]]

\* a ConfigParser that holds no option
NoOptions == Restrict(defaults, {})

\* the ConfigParser load_config returns.  config.read raises on a file it
\* cannot parse and passes over a file it cannot open.
load_config(cf) ==
    IF cf.state = "absent" THEN defaults
    ELSE IF cf.state = "malformed" THEN defaults
    ELSE IF cf.state = "unreadable" THEN NoOptions
    ELSE cf.options

\* the single-character entries of default_stopwords, lines 83-123
default_stopwords == { <<c>> : c \in WordChars \cup KeptPunctuation \cup Whitespace }

\* the words a stopwords.txt may add; none when there is no such file
UserStopwords == { {}, { <<"a", "b">> } }

(***************************************************************************)
(* The files of a run.                                                     *)
(***************************************************************************)
MaxLines == 2
MaxFileMinFrequency == 2

LineSet ==
    { <<Period, "\n">>,
      <<Period, Period, Period, "\n">>,
      <<" ", QMark, "\n">>,
      <<QMark, QMark>>,
      <<Period, QMark, "\n">>,
      <<"a", "b", " ", "a", "\n">>,
      <<"h", "t", "t", "p", ":", "/", "/", "a", " ", "a", "@", "b", "\n">>,
      <<"f", "t", "p", ":", "/", "/", "a", "\n">>,
      <<"\n">> }

InputFiles ==
    { [kind |-> "text", lines |-> ls, encoding_ok |-> ok] :
        ls \in UNION { [1..n -> LineSet] : n \in 0..MaxLines }, ok \in BOOLEAN }
    \cup { [kind |-> k, lines |-> <<>>, encoding_ok |-> TRUE] :
             k \in {"missing", "vanishes", "unopenable"} }

FullOptions ==
    { [defaults EXCEPT !.min_frequency = m, !.enable_punctuation_stats = e,
                       !.save_wordcloud = sv, !.show_wordcloud = sh] :
        m \in 1..MaxFileMinFrequency, e \in BOOLEAN, sv \in BOOLEAN, sh \in BOOLEAN }

PartialOptions ==
    { Restrict([defaults EXCEPT !.min_frequency = 1], Options \ {o}) : o \in Options }
    \cup { NoOptions }

ConfigFiles ==
    { [state |-> st, options |-> NoOptions] : st \in {"absent", "malformed", "unreadable"} }
    \cup { [state |-> "present", options |-> f] : f \in FullOptions \cup PartialOptions }

\* no report has been written
NoReports ==
    [ detailed_special |-> <<>>, detailed_words |-> <<>>, vocab |-> <<>>,
      summary_special |-> <<>> ]

NormIdle ==
    /\ raw_text = <<>>
    /\ processed_once = <<>>
    /\ processed_twice = <<>>
    /\ norm_pc = 0

Init ==
    /\ NormIdle
    /\ config_file \in ConfigFiles
    /\ input_file \in InputFiles
    /\ config = NoOptions
    /\ min_frequency = 0
    /\ enable_punctuation_stats = FALSE
    /\ stopwords = {}
    /\ line_num = 0
    /\ word_freq = <<>>
    /\ special_counts = <<>>
    /\ sorted_freq = <<>>
    /\ font_found = "unchecked"
    /\ wordcloud_file = "unset"
    /\ files_written = {}
    /\ reports = NoReports
    /\ error = "none"
    /\ pc = "check_input"

(***************************************************************************)
(* main, lines 542-553, and the constructor.                               *)
(***************************************************************************)
\* if not os.path.exists(args.input_file): return
CheckInput ==
    /\ pc = "check_input"
    /\ pc' = IF input_file.kind = "missing" THEN "done" ELSE "load_config"
    /\ UNCHANGED <<norm_vars, reports, config_file, input_file, config, min_frequency,
                   enable_punctuation_stats, stopwords, line_num, word_freq,
                   special_counts, sorted_freq, font_found, wordcloud_file,
                   files_written, error>>

\* self.config = self.load_config(config_file); writing the default file may fail
LoadConfig ==
    /\ pc = "load_config"
    /\ config' = load_config(config_file)
    /\ \E created \in BOOLEAN :
          files_written' = IF config_file.state = "absent" /\ created
                           THEN files_written \cup {"config.ini"}
                           ELSE files_written
    /\ pc' = "init_settings"
    /\ UNCHANGED <<norm_vars, reports, config_file, input_file, min_frequency,
                   enable_punctuation_stats, stopwords, line_num, word_freq,
                   special_counts, sorted_freq, font_found, wordcloud_file, error>>

\* lines 21-22: getint and getboolean raise when the option is not there
InitSettings ==
    /\ pc = "init_settings"
    /\ IF {"min_frequency", "enable_punctuation_stats"} \subseteq DOMAIN config
       THEN /\ min_frequency' = config["min_frequency"]
            /\ enable_punctuation_stats' = config["enable_punctuation_stats"]
            /\ error' = error
            /\ pc' = "load_stopwords"
       ELSE /\ error' = IF DOMAIN config = {} THEN "NoSectionError" ELSE "NoOptionError"
            /\ pc' = "crashed"
            /\ UNCHANGED <<min_frequency, enable_punctuation_stats>>
    /\ UNCHANGED <<norm_vars, reports, config_file, input_file, config, stopwords, line_num,
                   word_freq, special_counts, sorted_freq, font_found,
                   wordcloud_file, files_written>>

\* self.stopwords = self.load_stopwords(), lines 73-137
LoadStopwords ==
    /\ pc = "load_stopwords"
    /\ \E user_stopwords \in UserStopwords :
          stopwords' = default_stopwords \cup user_stopwords
    /\ pc' = "open"
    /\ UNCHANGED <<norm_vars, reports, config_file, input_file, config, min_frequency,
                   enable_punctuation_stats, line_num, word_freq, special_counts,
                   sorted_freq, font_found, wordcloud_file, files_written, error>>

(***************************************************************************)
(* analyze_chat_file, lines 177-253.                                       *)
(***************************************************************************)
\* with open(file_path, 'r', encoding='utf-8') as f: only FileNotFoundError and
\* UnicodeDecodeError are caught
AnalyzeOpen ==
    /\ pc = "open"
    /\ line_num' = 0
    /\ IF input_file.kind = "text"
       THEN /\ word_freq' = <<>>
            /\ special_counts' = ZeroCounts
            /\ error' = error
            /\ pc' = "read"
       ELSE IF input_file.kind = "vanishes"
       THEN /\ word_freq' = <<>>
            /\ special_counts' = <<>>
            /\ error' = error
            /\ pc' = "returned"
       ELSE /\ error' = "OSError"
            /\ pc' = "crashed"
            /\ UNCHANGED <<word_freq, special_counts>>
    /\ UNCHANGED <<norm_vars, reports, config_file, input_file, config, min_frequency,
                   enable_punctuation_stats, stopwords, sorted_freq, font_found,
                   wordcloud_file, files_written>>

\* one turn of the loop over the lines of the file, lines 201-243
AnalyzeLine ==
    /\ pc = "read"
    /\ line_num < Len(input_file.lines)
    /\ LET line == input_file.lines[line_num + 1]
           stripped_line == Strip(line)
           category == PunctuationCategory(stripped_line)
           processed_line == preprocess_text(line)
       IN IF category # NoCategory
          THEN /\ special_counts' = DictSet(special_counts, category,
                                            DictGet(special_counts, category) + 1)
               /\ word_freq' = word_freq
          ELSE /\ special_counts' = special_counts
               /\ word_freq' = IF processed_line = <<>> THEN word_freq
                               ELSE CountWords(word_freq, extract_words(processed_line))
    /\ line_num' = line_num + 1
    /\ UNCHANGED <<norm_vars, reports, config_file, input_file, config, min_frequency,
                   enable_punctuation_stats, stopwords, sorted_freq, font_found,
                   wordcloud_file, files_written, error, pc>>

\* the bytes after the lines read are not UTF-8: except UnicodeDecodeError
AnalyzeDecodeError ==
    /\ pc = "read"
    /\ line_num = Len(input_file.lines)
    /\ ~input_file.encoding_ok
    /\ word_freq' = <<>>
    /\ special_counts' = <<>>
    /\ pc' = "returned"
    /\ UNCHANGED <<norm_vars, reports, config_file, input_file, config, min_frequency,
                   enable_punctuation_stats, stopwords, line_num, sorted_freq,
                   font_found, wordcloud_file, files_written, error>>

\* return dict(word_freq), special_counts
AnalyzeReturn ==
    /\ pc = "read"
    /\ line_num = Len(input_file.lines)
    /\ input_file.encoding_ok
    /\ pc' = "returned"
    /\ UNCHANGED <<norm_vars, reports, config_file, input_file, config, min_frequency,
                   enable_punctuation_stats, stopwords, line_num, word_freq,
                   special_counts, sorted_freq, font_found, wordcloud_file,
                   files_written, error>>

(***************************************************************************)
(* main, lines 560-620.                                                    *)
(***************************************************************************)
\* if not word_freq: return
CheckWordFreq ==
    /\ pc = "returned"
    /\ pc' = IF word_freq = <<>> THEN "done" ELSE "filter"
    /\ UNCHANGED <<norm_vars, reports, config_file, input_file, config, min_frequency,
                   enable_punctuation_stats, stopwords, line_num, word_freq,
                   special_counts, sorted_freq, font_found, wordcloud_file,
                   files_written, error>>

\* sorted_freq = analyzer.filter_and_sort(word_freq, special_counts)
FilterAndSort ==
    /\ pc = "filter"
    /\ sorted_freq' = filter_and_sort(word_freq, special_counts)
    /\ pc' = "ranked"
    /\ UNCHANGED <<norm_vars, reports, config_file, input_file, config, min_frequency,
                   enable_punctuation_stats, stopwords, line_num, word_freq,
                   special_counts, font_found, wordcloud_file, files_written, error>>

\* if not sorted_freq: return
CheckSortedFreq ==
    /\ pc = "ranked"
    /\ pc' = IF sorted_freq = <<>> THEN "done" ELSE "save"
    /\ UNCHANGED <<norm_vars, reports, config_file, input_file, config, min_frequency,
                   enable_punctuation_stats, stopwords, line_num, word_freq,
                   special_counts, sorted_freq, font_found, wordcloud_file,
                   files_written, error>>

\* the block of qualifying tallies in the detailed report, lines 307-313
RECURSIVE QualifyingSpecials(_)
QualifyingSpecials(items) ==
    IF items = <<>> THEN <<>>
    ELSE IF Head(items)[2] >= min_frequency
         THEN << <<display_name(Head(items)[1]), Head(items)[2]>> >>
              \o QualifyingSpecials(Tail(items))
         ELSE QualifyingSpecials(Tail(items))

\* what save_results writes: the detailed report (block of tallies, then the
\* words), the vocabulary list and the tallies of the summary
save_results(sf, sc) ==
    LET words == SelectSeq(sf, LAMBDA item : ~IsPseudoLabel(item[1]))
    IN [ detailed_special |-> IF enable_punctuation_stats THEN QualifyingSpecials(sc)
                              ELSE <<>>,
         detailed_words |-> words,
         vocab |-> [i \in 1..Len(words) |-> words[i][1]],
         summary_special |-> IF enable_punctuation_stats THEN sc ELSE <<>> ]

\* save_results, lines 285-366: the three reports
SaveResults ==
    /\ pc = "save"
    /\ files_written' = files_written \cup {"detailed", "vocab", "summary"}
    /\ reports' = save_results(sorted_freq, special_counts)
    /\ pc' = "wordcloud"
    /\ UNCHANGED <<norm_vars, config_file, input_file, config, min_frequency,
                   enable_punctuation_stats, stopwords, line_num, word_freq,
                   special_counts, sorted_freq, font_found, wordcloud_file, error>>

(***************************************************************************)
(* generate_wordcloud, lines 368-439.                                      *)
(***************************************************************************)
WordcloudPath == "wordcloud.png"

RenderOptions ==
    { "wordcloud_max_words", "wordcloud_width", "wordcloud_height",
      "wordcloud_background_color", "font_path" }

\* the entries that go into the word cloud, lines 381-385
CloudWords == SelectSeq(sorted_freq, LAMBDA item : ~IsPseudoLabel(item[1]))

\* every exception is caught and None returned; a missing font only changes
\* font_path to None, and the library then draws with its own font
GenerateWordcloud ==
    /\ pc = "wordcloud"
    /\ pc' = "done"
    /\ IF CloudWords = <<>>
       THEN /\ wordcloud_file' = "None"
            /\ UNCHANGED <<font_found, files_written>>
       ELSE IF ~(RenderOptions \subseteq DOMAIN config)
       THEN /\ wordcloud_file' = "None"
            /\ UNCHANGED <<font_found, files_written>>
       ELSE /\ \E exists \in BOOLEAN :
                 font_found' = IF exists THEN "found" ELSE "missing"
            /\ IF "save_wordcloud" \notin DOMAIN config
               THEN /\ wordcloud_file' = "None"
                    /\ UNCHANGED files_written
               ELSE /\ files_written' = IF config["save_wordcloud"]
                                        THEN files_written \cup {WordcloudPath}
                                        ELSE files_written
                    /\ wordcloud_file' = IF "show_wordcloud" \notin DOMAIN config
                                         THEN "None"
                                         ELSE WordcloudPath
    /\ UNCHANGED <<norm_vars, reports, config_file, input_file, config, min_frequency,
                   enable_punctuation_stats, stopwords, line_num, word_freq,
                   special_counts, sorted_freq, error>>

Next ==
    \/ CheckInput
    \/ LoadConfig
    \/ InitSettings
    \/ LoadStopwords
    \/ AnalyzeOpen
    \/ AnalyzeLine
    \/ AnalyzeDecodeError
    \/ AnalyzeReturn
    \/ CheckWordFreq
    \/ FilterAndSort
    \/ CheckSortedFreq
    \/ SaveResults
    \/ GenerateWordcloud

Spec == Init /\ [][Next]_vars

(***************************************************************************)
(* filter_and_sort on its own: every table over FilterTokens with counts   *)
(* up to MaxCount, every tally, every set of stopwords, every threshold.   *)
(* The keys of a table are tokens, which preprocess_text leaves no "[" in. *)
(***************************************************************************)
MaxCount == 2

FilterTokens == { <<"a">>, <<"a", "b">>, <<"h", "t", "t", "p">> }

Tables ==
    UNION { { t \in [1..n -> FilterTokens \X (1..MaxCount)] :
                \A i, j \in 1..n : i # j => t[i][1] # t[j][1] } :
            n \in 0..Cardinality(FilterTokens) }

Tallies == { << <<juhao, a>>, <<wenhao, b>> >> : a, b \in 0..MaxCount }

FilterInit ==
    /\ NormIdle
    /\ config_file = [state |-> "absent", options |-> NoOptions]
    /\ input_file = [kind |-> "text", lines |-> <<>>, encoding_ok |-> TRUE]
    /\ config = defaults
    /\ min_frequency \in 0..(MaxCount + 1)
    /\ enable_punctuation_stats \in BOOLEAN
    /\ stopwords \in SUBSET FilterTokens
    /\ line_num = 0
    /\ word_freq \in Tables
    /\ special_counts \in Tallies
    /\ sorted_freq = <<>>
    /\ font_found = "unchecked"
    /\ wordcloud_file = "unset"
    /\ files_written = {}
    /\ reports = NoReports
    /\ error = "none"
    /\ pc = "filter"

FilterNext == FilterAndSort

SpecFilter == FilterInit /\ [][FilterNext]_vars

Labels(items) == { items[i][1] : i \in 1..Len(items) }
Entries(items) == { items[i] : i \in 1..Len(items) }

\* C1: every entry of the ranked result, word or pseudo-label, has a count of
\* at least min_frequency.
ThresholdInvariant ==
    pc = "ranked" =>
        \A i \in 1..Len(sorted_freq) : sorted_freq[i][2] >= min_frequency

\* the ranking holds a word and a pseudo-label, and a word and a tally below the
\* threshold were left out
ThresholdWitness ==
    /\ pc = "ranked"
    /\ enable_punctuation_stats
    /\ \E i, j \in 1..Len(sorted_freq) :
          IsPseudoLabel(sorted_freq[i][1]) /\ ~IsPseudoLabel(sorted_freq[j][1])
    /\ \E i \in 1..Len(word_freq) : word_freq[i][2] < min_frequency
    /\ \E i \in 1..Len(special_counts) : special_counts[i][2] < min_frequency

\* C2: no entry of the ranked result that is not a pseudo-label has a label in
\* the stopword set, however high its count.
StopwordExclusion ==
    pc = "ranked" =>
        \A i \in 1..Len(sorted_freq) :
            ~IsPseudoLabel(sorted_freq[i][1]) => sorted_freq[i][1] \notin stopwords

\* a stopword holds the highest count of the table, above the threshold, and the
\* ranking is not empty
StopwordWitness ==
    /\ pc = "ranked"
    /\ sorted_freq # <<>>
    /\ \E i \in 1..Len(word_freq) :
          /\ word_freq[i][1] \in stopwords
          /\ word_freq[i][2] > min_frequency
          /\ \A j \in 1..Len(word_freq) : word_freq[j][2] <= word_freq[i][2]

\* the entries the ranked result is to hold
ExpectedEntries ==
    { e \in Entries(word_freq) : e[1] \notin stopwords /\ e[2] >= min_frequency }
    \cup (IF enable_punctuation_stats
          THEN { <<display_name(special_counts[i][1]), special_counts[i][2]>> :
                   i \in { k \in 1..Len(special_counts) :
                             special_counts[k][2] >= min_frequency } }
          ELSE {})

\* C3: the ranked result holds exactly the table's entries that are no stopword
\* and reach the threshold, and, with the flag on, one pseudo-label per category
\* whose tally reaches it; each once, each with its count.
FilterExact ==
    pc = "ranked" =>
        /\ Entries(sorted_freq) = ExpectedEntries
        /\ Len(sorted_freq) = Cardinality(ExpectedEntries)
        /\ Cardinality(Labels(sorted_freq)) = Len(sorted_freq)

\* of two words that are no stopwords, the one at the threshold is the whole
\* ranking and the one just below it is left out
FilterExactWitness ==
    /\ pc = "ranked"
    /\ Len(sorted_freq) = 1
    /\ ~IsPseudoLabel(sorted_freq[1][1])
    /\ \E i \in 1..Len(word_freq) :
          /\ word_freq[i][1] \notin stopwords
          /\ word_freq[i][2] = min_frequency - 1
    /\ sorted_freq[1][2] = min_frequency

\* where a label of the ranking stood before the sort: the words in table order,
\* then the pseudo-labels in category order
OriginalPosition(label) ==
    IF IsPseudoLabel(label)
    THEN Len(word_freq)
         + (CHOOSE k \in 1..Len(special_counts) : display_name(special_counts[k][1]) = label)
    ELSE CHOOSE k \in 1..Len(word_freq) : word_freq[k][1] = label

\* C4: the ranked result is non-increasing in count, entries of equal count stand
\* in their insertion order, and a second run on the same table and tally gives
\* the same sequence.
RankedOrder ==
    pc = "ranked" =>
        /\ \A i, j \in 1..Len(sorted_freq) :
              i < j =>
                 /\ sorted_freq[i][2] >= sorted_freq[j][2]
                 /\ sorted_freq[i][2] = sorted_freq[j][2] =>
                       OriginalPosition(sorted_freq[i][1]) < OriginalPosition(sorted_freq[j][1])
        /\ filter_and_sort(word_freq, special_counts) = sorted_freq

\* two words and a pseudo-label tie below a higher count that was inserted last
RankedOrderWitness ==
    /\ pc = "ranked"
    /\ Len(sorted_freq) >= 4
    /\ sorted_freq[1][2] > sorted_freq[2][2]
    /\ sorted_freq[2][2] = sorted_freq[3][2]
    /\ sorted_freq[3][2] = sorted_freq[4][2]
    /\ ~IsPseudoLabel(sorted_freq[2][1])
    /\ ~IsPseudoLabel(sorted_freq[3][1])
    /\ IsPseudoLabel(sorted_freq[4][1])

(***************************************************************************)
(* The punctuation-line detector inside a run.                             *)
(***************************************************************************)
Tally(sc, name) == DictGet(sc, name)

\* the stripped line is not empty and every character of it is c
ConsistsOf(stripped, c) ==
    Len(stripped) > 0 /\ { stripped[i] : i \in 1..Len(stripped) } = {c}

\* C5: a line adds 1 to the tally of a category exactly when the flag is on and
\* the stripped line is not empty and made only of that category's symbol; it
\* then leaves the other tally and the table alone; every other line leaves both
\* tallies alone and goes on to the normalizer; with the flag off both tallies
\* stay 0.
PunctuationLineDetection ==
    [][ (pc = "read" /\ line_num' = line_num + 1) =>
          LET line == input_file.lines[line_num + 1]
              isPeriod == enable_punctuation_stats /\ ConsistsOf(Strip(line), Period)
              isQMark == enable_punctuation_stats /\ ConsistsOf(Strip(line), QMark)
          IN /\ Tally(special_counts', juhao)
                  = Tally(special_counts, juhao) + (IF isPeriod THEN 1 ELSE 0)
             /\ Tally(special_counts', wenhao)
                  = Tally(special_counts, wenhao) + (IF isQMark THEN 1 ELSE 0)
             /\ (isPeriod \/ isQMark) => word_freq' = word_freq
             /\ (~(isPeriod \/ isQMark) /\ preprocess_text(line) # <<>>)
                   => word_freq' # word_freq
             /\ ~enable_punctuation_stats =>
                   Tally(special_counts', juhao) = 0 /\ Tally(special_counts', wenhao) = 0
      ]_vars

\* a line of three full stops has been read: one on the tally, nothing in the table
PunctuationLineWitness ==
    /\ pc = "read"
    /\ line_num = 1
    /\ enable_punctuation_stats
    /\ input_file.lines[1] = <<Period, Period, Period, "\n">>
    /\ special_counts = << <<juhao, 1>>, <<wenhao, 0>> >>
    /\ word_freq = <<>>

(***************************************************************************)
(* The normalizer on its own: every text made of at most MaxPieces pieces. *)
(***************************************************************************)
MaxPieces == 4

Pieces ==
    { <<"h", "t", "t", "p">>, <<"s">>, <<":", "/", "/">>, <<"@">>, <<"#">>,
      <<" ">>, <<Period>> }

Texts(n) == { Concat(ps) : ps \in UNION { [1..k -> Pieces] : k \in 0..n } }

NormInit ==
    /\ raw_text \in Texts(MaxPieces)
    /\ processed_once = <<>>
    /\ processed_twice = <<>>
    /\ norm_pc = 0
    /\ config_file = [state |-> "absent", options |-> NoOptions]
    /\ input_file = [kind |-> "missing", lines |-> <<>>, encoding_ok |-> TRUE]
    /\ config = NoOptions
    /\ min_frequency = 0
    /\ enable_punctuation_stats = FALSE
    /\ stopwords = {}
    /\ line_num = 0
    /\ word_freq = <<>>
    /\ special_counts = <<>>
    /\ sorted_freq = <<>>
    /\ font_found = "unchecked"
    /\ wordcloud_file = "unset"
    /\ files_written = {}
    /\ reports = NoReports
    /\ error = "none"
    /\ pc = "normalizer"

NormalizeOnce ==
    /\ norm_pc = 0
    /\ processed_once' = preprocess_text(raw_text)
    /\ norm_pc' = 1
    /\ UNCHANGED <<raw_text, processed_twice, main_vars>>

NormalizeTwice ==
    /\ norm_pc = 1
    /\ processed_twice' = preprocess_text(processed_once)
    /\ norm_pc' = 2
    /\ UNCHANGED <<raw_text, processed_once, main_vars>>

NormNext == NormalizeOnce \/ NormalizeTwice

SpecNorm == NormInit /\ [][NormNext]_vars

\* C6: the output of preprocess_text is a fixed point of preprocess_text:
\* normalizing the normalized text changes nothing.
NormalizeIdempotent == norm_pc = 2 => processed_twice = processed_once

\* a text that holds a URL and lost more than the URL has been normalized twice,
\* and something was left of it
NormalizeIdempotentWitness ==
    /\ norm_pc = 2
    /\ processed_once # <<>>
    /\ \E i \in 1..Len(raw_text) : UrlMatchEnd(raw_text, i) > 0
    /\ \E i \in 1..Len(raw_text) : raw_text[i] = "#"
    /\ processed_twice = processed_once

(***************************************************************************)
(* Lines of whitespace, URLs and e-mail addresses.                         *)
(***************************************************************************)
\* scheme://rest, with a scheme of letters and a rest that is not empty
UrlShaped(run) ==
    \E k \in 2..(Len(run) - 3) :
        /\ StartsWithAt(run, k, <<":", "/", "/">>)
        /\ \A i \in 1..(k - 1) : run[i] \in WordChars

\* local@domain, neither part empty
EmailShaped(run) == \E j \in 2..(Len(run) - 1) : run[j] = "@"

\* the runs of non-whitespace characters of a line, each as <<first, last>>
RunsOf(line) ==
    { <<i, RunEnd(line, i)>> :
        i \in { k \in 1..Len(line) :
                  ~IsSpace(line[k]) /\ (k = 1 \/ IsSpace(line[k - 1])) } }

OnlyUrlsAndEmails(line) ==
    \A r \in RunsOf(line) :
        UrlShaped(SubSeq(line, r[1], r[2])) \/ EmailShaped(SubSeq(line, r[1], r[2]))

\* C7: a file whose lines hold only whitespace, URLs of any scheme and e-mail
\* addresses is read without an error into an empty table, and its ranked
\* result is empty.
UrlEmailOnlyFileEmpty ==
    ( /\ input_file.kind = "text"
      /\ input_file.encoding_ok
      /\ \A i \in 1..Len(input_file.lines) : OnlyUrlsAndEmails(input_file.lines[i])
      /\ pc \in {"returned", "filter", "ranked", "save", "wordcloud", "done"} )
    => (word_freq = <<>> /\ sorted_freq = <<>>)

(***************************************************************************)
(* Failures on the input file.                                             *)
(***************************************************************************)
ConstructorErrors == {"NoOptionError", "NoSectionError"}

\* the run has met a failure of the input file
InputFailed ==
    /\ error \notin ConstructorErrors
    /\ \/ input_file.kind \in {"vanishes", "unopenable"}
             /\ pc \in {"returned", "filter", "ranked", "save", "wordcloud", "done", "crashed"}
       \/ input_file.kind = "text" /\ ~input_file.encoding_ok
             /\ pc \in {"returned", "filter", "ranked", "save", "wordcloud", "done", "crashed"}

\* C8: after any failure on the input file the caller holds an empty result, no
\* report and no image has been written, and no exception leaves the process.
InputErrorHandled ==
    InputFailed =>
        /\ pc # "crashed"
        /\ error = "none"
        /\ word_freq = <<>>
        /\ special_counts = <<>>
        /\ files_written \subseteq {"config.ini"}

(***************************************************************************)
(* The options the analyzer resolves.                                      *)
(***************************************************************************)
\* the file's value when the file supplies the option, the default otherwise
Resolved(o) ==
    IF config_file.state = "present" /\ o \in DOMAIN config_file.options
    THEN config_file.options[o]
    ELSE defaults[o]

\* C9: whatever the configuration file, the constructor ends without an
\* exception, and every option is the file's value or else the default.
ConfigFallback ==
    /\ error \notin ConstructorErrors
    /\ pc \in {"load_stopwords", "open", "read", "returned", "filter", "ranked",
               "save", "wordcloud"} =>
          /\ min_frequency = Resolved("min_frequency")
          /\ enable_punctuation_stats = Resolved("enable_punctuation_stats")
          /\ \A o \in Options : o \in DOMAIN config /\ config[o] = Resolved(o)

(***************************************************************************)
(* The word cloud without the configured font.                             *)
(***************************************************************************)
\* C10: when the font file is not there and the ranking holds a word, the path
\* generate_wordcloud returns is the path of an image that was written, whatever
\* save_wordcloud and show_wordcloud are.
FontFallback ==
    ( /\ pc = "done"
      /\ font_found = "missing"
      /\ Options \subseteq DOMAIN config
      /\ CloudWords # <<>> )
    => (wordcloud_file = WordcloudPath /\ WordcloudPath \in files_written)

(***************************************************************************)
(* The tallies from the file to the ranking and the reports.               *)
(***************************************************************************)
\* the run is over and the whole file was read without a failure
ReadRunOver ==
    /\ pc = "done"
    /\ error = "none"
    /\ input_file.kind = "text"
    /\ input_file.encoding_ok
    /\ line_num = Len(input_file.lines)

\* C11: when a run that read its file with punctuation stats on is over, every
\* category whose tally reaches min_frequency stands as a pseudo-label with its
\* tally in the ranked result and in the detailed report, also when the file
\* gave no word.
PunctuationTallyReported ==
    (ReadRunOver /\ enable_punctuation_stats) =>
        \A i \in 1..Len(special_counts) :
            special_counts[i][2] >= min_frequency =>
                LET entry == <<display_name(special_counts[i][1]), special_counts[i][2]>>
                IN /\ entry \in Entries(sorted_freq)
                   /\ "detailed" \in files_written
                   /\ entry \in Entries(reports.detailed_special)

====
